---- MODULE Spec2Model ----
(***************************************************************************)
(* Model of OverlayCVStage (post_processing_stages/overlay_cv_stage.cpp):  *)
(* Read loads the overlay list, Configure resolves it against the stream,  *)
(* Process expands each overlay's text, refreshes its cached patch and     *)
(* copies the patch onto the luminance plane.                              *)
(*                                                                         *)
(* Representation.  A std::string is a sequence of one-character strings.  *)
(* A property-tree entry is a function whose DOMAIN is the set of keys the *)
(* entry has.  A double (scale, alpha) is a fixed-point integer counted in *)
(* units of 1/SCALE_ONE.  A cv::Mat is a record rows, cols, data with data *)
(* a function on <<column, row>>.  Times are milliseconds.                 *)
(***************************************************************************)
EXTENDS Integers, Sequences, FiniteSets, TLC

(***************************************************************************)
(* Bounds of the model.                                                    *)
(***************************************************************************)
\* Process calls explored after Configure.
MaxCalls == 2
\* Entries of the overlay list handed to Read.
MaxOverlays == 2
\* Configure calls explored.
MaxConfigures == 2
\* The clocks read 0, 999 and the whole seconds up to MaxSeconds (in ms).
MaxSeconds == 1

\* Fixed-point denominator for double values: 1.0 is SCALE_ONE.
SCALE_ONE == 1000

\* Reference widths of Configure.
SCALE_REF_WIDTH == 1200
THICKNESS_REF_WIDTH == 700

\* FONT_HERSHEY_SIMPLEX metrics (cap line and base line of the face, and the
\* horizontal advance of a glyph), as getTextSize reads them.
HERSHEY_CAP_LINE == 12
HERSHEY_BASE_LINE == 9
HERSHEY_ADVANCE == 20

Max(a, b) == IF a >= b THEN a ELSE b
Min(a, b) == IF a <= b THEN a ELSE b

\* cvRound(n / d) for n >= 0, d > 0: round to nearest, ties to even.
cvRound(n, d) ==
    LET q == n \div d
        r == n % d
    IN  IF 2 * r > d \/ (2 * r = d /\ q % 2 = 1) THEN q + 1 ELSE q

\* The readings a clock can give.
ClockReadings == {0, 999} \cup {1000 * k : k \in 1..MaxSeconds}

\* Stream geometries Configure can find: <<width, height, stride>>.
StreamSizes == {<<6, 6, 8>>, <<6, 4, 6>>}

\* What GetMainStream() and its pixel format can be when Configure rejects
\* the stream: no main stream, or a main stream that is not YUV420.
RejectedStreams == {"null", "RGB888"}

(***************************************************************************)
(* The configuration entries Read is given.  A key that is absent from an  *)
(* entry is absent from the function's DOMAIN.                             *)
(***************************************************************************)
PlainStatic == [text |-> <<"A">>, scale |-> 20 * SCALE_ONE]
OpaqueStatic ==
    [text |-> <<"B">>, scale |-> 20 * SCALE_ONE, fg |-> 200, bg |-> 0,
     alpha |-> 0, x |-> <<"2">>, y |-> <<"1", "0", "0", "%">>]
Clock ==
    [text |-> <<"%", "H">>, scale |-> 20 * SCALE_ONE, bg |-> 200,
     x |-> <<"5", "0", "%">>]
WideStatic == [text |-> <<"A", "B", "C">>, scale |-> 20 * SCALE_ONE, bg |-> 10]
EmptyStatic == [text |-> <<>>]
BorderedStatic ==
    [text |-> <<"C">>, scale |-> 20 * SCALE_ONE, bg |-> 60, x |-> <<"3">>,
     border_width |-> 0, border_color |-> 250]
ThickStatic == [text |-> <<"D">>, scale |-> 20 * SCALE_ONE, thickness |-> 350]

\* The entries, in the order overlay arrays take them from.
Catalog ==
    <<WideStatic, PlainStatic, OpaqueStatic, Clock, EmptyStatic,
      BorderedStatic, ThickStatic>>

\* The overlay arrays Read can be handed: up to MaxOverlays consecutive
\* entries of the catalog, taken cyclically from any starting point.
ParamLists ==
    {[k \in 1..n |-> Catalog[((i + k - 2) % Len(Catalog)) + 1]] :
       i \in 1..Len(Catalog), n \in 1..MaxOverlays}

(***************************************************************************)
(* cv::Mat                                                                 *)
(***************************************************************************)
\* cv::Mat(): no rows, no columns, no data.
EmptyMat == [rows |-> 0, cols |-> 0, data |-> <<>>]

\* cv::Mat::empty()
MatEmpty(m) == m.rows = 0 \/ m.cols = 0

MatCells(rows, cols) == (0..(cols - 1)) \X (0..(rows - 1))

(***************************************************************************)
(* Read                                                                    *)
(***************************************************************************)
\* ptree::get<T>(key, default)
Get(overlay, key, default) ==
    IF key \in DOMAIN overlay THEN overlay[key] ELSE default

\* config.text.find('%') != npos
HasPercent(text) == \E i \in 1..Len(text) : text[i] = "%"

\* The OverlayConfig that Read pushes for one entry.  x, y and the cached
\* rectangle are left unset by Read (0 here); the code reads x and y only
\* after Configure and the rectangle only while cached_roi is non-empty.
ReadOverlay(overlay) ==
    [text            |-> overlay["text"],
     fg              |-> Get(overlay, "fg", 255),
     bg              |-> IF "bg" \in DOMAIN overlay THEN overlay["bg"] ELSE 0,
     has_bg          |-> "bg" \in DOMAIN overlay,
     scale           |-> Get(overlay, "scale", SCALE_ONE),
     thickness       |-> Get(overlay, "thickness", 2),
     alpha           |-> Get(overlay, "alpha", SCALE_ONE \div 2),
     x_str           |-> Get(overlay, "x", <<"0">>),
     y_str           |-> Get(overlay, "y", <<"0">>),
     x               |-> 0,
     y               |-> 0,
     update_interval |-> Get(overlay, "update_interval", 1000),
     is_dynamic      |-> HasPercent(overlay["text"]),
     border_width    |-> IF "border_width" \in DOMAIN overlay
                         THEN overlay["border_width"] ELSE 0,
     border_color    |-> IF "border_width" \in DOMAIN overlay
                         THEN Get(overlay, "border_color", 0) ELSE 0,
     has_border      |-> "border_width" \in DOMAIN overlay,
     cached_roi      |-> EmptyMat,
     cached_x        |-> 0,
     cached_y        |-> 0,
     cached_width    |-> 0,
     cached_height   |-> 0,
     last_update     |-> 0]

\* overlays_ after Read(params): one config appended per entry, in order.
ReadAll(old, params) ==
    old \o [i \in 1..Len(params) |-> ReadOverlay(params[i])]

(***************************************************************************)
(* Configure                                                               *)
(***************************************************************************)
DigitValue(c) ==
    CASE c = "0" -> 0 [] c = "1" -> 1 [] c = "2" -> 2 [] c = "3" -> 3
      [] c = "4" -> 4 [] c = "5" -> 5 [] c = "6" -> 6 [] c = "7" -> 7
      [] c = "8" -> 8 [] c = "9" -> 9

\* std::stoi on an optional '-' followed by decimal digits.
RECURSIVE DigitsValue(_)
DigitsValue(s) ==
    IF s = <<>> THEN 0
    ELSE 10 * DigitsValue(SubSeq(s, 1, Len(s) - 1)) + DigitValue(s[Len(s)])

stoi(s) ==
    IF s # <<>> /\ s[1] = "-" THEN 0 - DigitsValue(Tail(s)) ELSE DigitsValue(s)

\* ParsePosition(s, pos, base): the value stored into pos.
ParsePosition(s, base) ==
    IF s = <<>> THEN 0
    ELSE IF s[Len(s)] = "%"
         THEN (base * stoi(SubSeq(s, 1, Len(s) - 1))) \div 100
         ELSE stoi(s)

\* c.scale * info_.width / 1200, on the fixed-point scale.
ScaledScale(scale, width) == (scale * width) \div SCALE_REF_WIDTH

\* std::max<int>(c.thickness * info_.width / 700, 1), for thickness >= 0.
ScaledThickness(thickness, width) ==
    Max((thickness * width) \div THICKNESS_REF_WIDTH, 1)

\* The body of Configure's loop for one overlay.
ConfigureOverlay(c, info) ==
    [c EXCEPT !.x = ParsePosition(c.x_str, info.width),
              !.y = ParsePosition(c.y_str, info.height),
              !.scale = ScaledScale(c.scale, info.width),
              !.thickness = ScaledThickness(c.thickness, info.width)]

(***************************************************************************)
(* Text expansion and measurement                                          *)
(***************************************************************************)
\* What FrameInfo::ToString can return for a template: the formatter is an
\* external collaborator; it passes the template through or returns nothing.
ToStringResults(t) == {t, <<>>}

\* What strftime can write for a format: nothing (it then returns 0), or the
\* rendered time.
StrftimeResults(s) == IF s = <<>> THEN {<<>>} ELSE {<<>>, <<"1", "2">>}

\* FormatText, given ToString's result s and the buffer strftime wrote.
FormatText(s, buf) == IF Len(buf) # 0 THEN buf ELSE s

\* No measurement made yet.
NoSize == [height |-> 0, width |-> 0, baseline |-> 0]

\* cv::getTextSize(text, FONT_HERSHEY_SIMPLEX, scale, thickness, &baseline)
getTextSize(text, scale, thickness) ==
    [height   |-> cvRound((HERSHEY_CAP_LINE + HERSHEY_BASE_LINE) * scale
                          + ((thickness + 1) \div 2) * SCALE_ONE, SCALE_ONE),
     width    |-> cvRound(Len(text) * HERSHEY_ADVANCE * scale
                          + thickness * SCALE_ONE, SCALE_ONE),
     baseline |-> cvRound(2 * HERSHEY_BASE_LINE * scale + thickness * SCALE_ONE,
                          2 * SCALE_ONE)]

(***************************************************************************)
(* GenerateCache                                                           *)
(***************************************************************************)
\* saturate_cast<uchar> of a colour scalar.
Saturate(v) == Max(0, Min(255, v))

\* Cells that cv::rectangle(roi, Rect(0, 0, cols, rows), colour, width)
\* paints: the whole patch for a negative width (FILLED), otherwise the
\* outline through the patch's edge pixels, width \div 2 cells deep.
BorderStroke(rows, cols, width, cx, cy) ==
    \/ width < 0
    \/ Min(Min(cx, cols - 1 - cx), Min(cy, rows - 1 - cy)) <= width \div 2

\* Cells that cv::putText paints for a text drawn at Point(0, height): the
\* glyph strokes lie above the baseline row and leave gaps between them.
TextStroke(size, cx, cy) == cy < size.height /\ cx % 2 = 0

\* The value of one cell of the patch: fill, then border, then text.
PatchCell(config, size, cx, cy) ==
    IF TextStroke(size, cx, cy) THEN Saturate(config.fg)
    ELSE IF config.has_border
            /\ BorderStroke(size.height + size.baseline, size.width,
                            config.border_width, cx, cy)
         THEN Saturate(config.border_color)
         ELSE IF config.has_bg THEN Saturate(config.bg) ELSE 0

\* x_pos and y_pos of GenerateCache.
ClampX(config, size, info) ==
    Max(0, Min(config.x, info.width - size.width))

ClampY(config, size, info) ==
    Max(size.height + size.baseline, Min(config.y, info.height - size.baseline))

\* bg_rect of GenerateCache.
BgRect(config, size, info) ==
    [x      |-> ClampX(config, size, info),
     y      |-> ClampY(config, size, info) - size.height,
     width  |-> size.width,
     height |-> size.height + size.baseline]

\* The patch GenerateCache renders into a rows x cols CV_8UC1 image.
RenderPatch(config, size) ==
    [rows |-> size.height + size.baseline,
     cols |-> size.width,
     data |-> [c \in MatCells(size.height + size.baseline, size.width) |->
                 PatchCell(config, size, c[1], c[2])]]

GenerateCache_StaleSize(config, text, info) ==
    IF text = <<>> THEN [config EXCEPT !.cached_roi = EmptyMat]
    ELSE LET size == getTextSize(text, config.scale, config.thickness)
             bg_rect == BgRect(config, size, info)
         IN  [config EXCEPT !.cached_x = bg_rect.x,
                            !.cached_y = bg_rect.y,
                            !.cached_roi = RenderPatch(config, size)]

\* GenerateCache(config, text): the config it leaves.
GenerateCache(config, text, info) ==
    IF text = <<>> THEN [config EXCEPT !.cached_roi = EmptyMat]
    ELSE LET size == getTextSize(text, config.scale, config.thickness)
             bg_rect == BgRect(config, size, info)
         IN  [config EXCEPT !.cached_x = bg_rect.x,
                            !.cached_y = bg_rect.y,
                            !.cached_width = bg_rect.width,
                            !.cached_height = bg_rect.height,
                            !.cached_roi = RenderPatch(config, size)]

(***************************************************************************)
(* Process                                                                 *)
(***************************************************************************)
\* current_time - config.last_update >= config.update_interval on uint64_t.
\* When last_update is ahead of current_time the difference wraps to
\* 2^64 - (last_update - current_time), above every interval of the model.
IntervalElapsed(current_time, config) ==
    IF current_time >= config.last_update
    THEN current_time - config.last_update >= config.update_interval
    ELSE TRUE

\* Whether Process calls GenerateCache for an overlay with non-empty text.
NeedsRender_StaticAlways(config, current_time) ==
    IF config.is_dynamic THEN IntervalElapsed(current_time, config) ELSE TRUE

NeedsRender(config, current_time) ==
    IF config.is_dynamic THEN IntervalElapsed(current_time, config)
    ELSE MatEmpty(config.cached_roi)

\* The cache policy of Process for one overlay with non-empty text.
RefreshCache(config, text, current_time, info) ==
    IF NeedsRender(config, current_time)
    THEN IF config.is_dynamic
         THEN [GenerateCache(config, text, info) EXCEPT
                 !.last_update = current_time]
         ELSE GenerateCache(config, text, info)
    ELSE config

\* Mat frame(info_.height, info_.width, CV_8U, ptr, info_.stride) over the
\* cells of the luminance plane.
FrameMat(info, cells) ==
    [rows |-> info.height, cols |-> info.width, data |-> cells]

InFrame_NoRightEdge(config, frm) ==
    /\ config.cached_x >= 0
    /\ config.cached_y >= 0
    /\ config.cached_y + config.cached_height <= frm.rows

\* The bounds check on roi_rect against frame.cols and frame.rows.
InFrame(config, frm) ==
    /\ config.cached_x >= 0
    /\ config.cached_y >= 0
    /\ config.cached_x + config.cached_width <= frm.cols
    /\ config.cached_y + config.cached_height <= frm.rows

Draws_NoBoundsCheck(config, frm) == ~MatEmpty(config.cached_roi)

\* Whether Process copies the overlay's patch onto the frame.
Draws(config, frm) == ~MatEmpty(config.cached_roi) /\ InFrame(config, frm)

\* A cell of the frame lies in the overlay's roi_rect.
InRect(config, p) ==
    /\ config.cached_x <= p[1] /\ p[1] < config.cached_x + config.cached_width
    /\ config.cached_y <= p[2] /\ p[2] < config.cached_y + config.cached_height

\* The value the overlay's patch has at a cell of the frame inside roi_rect.
PatchAt(config, p) ==
    config.cached_roi.data[<<p[1] - config.cached_x, p[2] - config.cached_y>>]

CopyTo_WholeRows(config, frm) ==
    [frm EXCEPT !.data =
       [p \in DOMAIN frm.data |->
          IF InRect(config, p) THEN PatchAt(config, p)
          ELSE IF config.cached_y <= p[2]
                  /\ p[2] < config.cached_y + config.cached_height
               THEN 0
               ELSE frm.data[p]]]

\* config.cached_roi.copyTo(frame(roi_rect))
CopyTo(config, frm) ==
    [frm EXCEPT !.data =
       [p \in DOMAIN frm.data |->
          IF InRect(config, p) THEN PatchAt(config, p) ELSE frm.data[p]]]

ProcessOverlay_NoSkip(st, i, text, current_time, info) ==
    LET old == st.overlays[i]
        new == RefreshCache(old, text, current_time, info)
        renders == NeedsRender(old, current_time)
    IN  [overlays |-> [st.overlays EXCEPT ![i] = new],
         frame    |-> IF Draws(new, st.frame) THEN CopyTo(new, st.frame)
                      ELSE st.frame,
         rendered |-> IF renders THEN st.rendered \cup {i} ELSE st.rendered,
         drawn    |-> IF Draws(new, st.frame)
                      THEN st.drawn \cup {i} ELSE st.drawn,
         measured |-> st.measured]

\* One overlay's turn in the loop of Process: st holds the configs, the
\* frame, the sets of overlays rendered and drawn so far in this call, and
\* the latest getTextSize result of each overlay.
ProcessOverlay(st, i, text, current_time, info) ==
    IF text = <<>> THEN st
    ELSE LET old == st.overlays[i]
             new == RefreshCache(old, text, current_time, info)
             renders == NeedsRender(old, current_time)
         IN  [overlays |-> [st.overlays EXCEPT ![i] = new],
              frame    |-> IF Draws(new, st.frame) THEN CopyTo(new, st.frame)
                           ELSE st.frame,
              rendered |-> IF renders THEN st.rendered \cup {i}
                           ELSE st.rendered,
              drawn    |-> IF Draws(new, st.frame)
                           THEN st.drawn \cup {i} ELSE st.drawn,
              measured |-> IF renders
                           THEN [st.measured EXCEPT ![i] =
                                   getTextSize(text, old.scale, old.thickness)]
                           ELSE st.measured]

RECURSIVE ProcessLoop_Reversed(_, _, _, _, _)
ProcessLoop_Reversed(st, n, texts, current_time, info) ==
    IF n = 0 THEN st
    ELSE ProcessLoop_Reversed(
           ProcessOverlay(st, n, texts[n], current_time, info),
           n - 1, texts, current_time, info)

\* The loop of Process over overlays 1..n, in order.
RECURSIVE ProcessLoop(_, _, _, _, _)
ProcessLoop(st, n, texts, current_time, info) ==
    IF n = 0 THEN st
    ELSE ProcessOverlay(ProcessLoop(st, n - 1, texts, current_time, info),
                        n, texts[n], current_time, info)

(***************************************************************************)
(* The stage as a state machine                                            *)
(***************************************************************************)
VARIABLES
    pc,           \* "new", then "read" after Read, "configured" after Configure
    overlays_,    \* std::vector<OverlayConfig> overlays_
    info_,        \* StreamInfo info_: width, height, stride of the luminance plane
    stream_,      \* Stream *stream_: "unset", "null", or the stream's pixel format
    params_,      \* the overlay array Read was given
    span,         \* bytes of the buffer span the latest Process call was handed
    outcome,      \* how the latest call ended: "ok", "threw" or "crashed"
    frame_in,     \* the frame Mat as the latest Process call received it
    frame,        \* the frame Mat as that call left it
    texts,        \* the text each overlay expanded to in that call
    rendered,     \* the overlays GenerateCache rendered in that call
    drawn,        \* the overlays whose patch that call copied onto the frame
    seen,         \* the overlays whose text was non-empty in some call so far
    mono,         \* the monotonic clock at the latest Process call
    render_mono,  \* per overlay: the monotonic clock at its latest render, or -1
    measured,     \* per overlay: the getTextSize result of its latest render
    calls,        \* Process calls so far
    configures    \* Configure calls so far

vars == <<pc, overlays_, info_, stream_, params_, span, outcome, frame_in, frame, texts, rendered, drawn, seen,
          mono, render_mono, measured, calls, configures>>

Init ==
    /\ pc = "new"
    /\ overlays_ = <<>>
    /\ info_ = [width |-> 0, height |-> 0, stride |-> 0]
    /\ stream_ = "unset"
    /\ params_ = <<>>
    /\ span = 0
    /\ outcome = "ok"
    /\ frame_in = EmptyMat
    /\ frame = EmptyMat
    /\ texts = <<>>
    /\ rendered = {}
    /\ drawn = {}
    /\ seen = {}
    /\ mono = 0
    /\ render_mono = <<>>
    /\ measured = <<>>
    /\ calls = 0
    /\ configures = 0

\* Read(params), called by the host once, when it creates the stage.
Read ==
    /\ pc = "new"
    /\ \E params \in ParamLists :
         /\ overlays_' = ReadAll(overlays_, params)
         /\ render_mono' = [i \in 1..Len(params) |-> 0 - 1]
         /\ measured' = [i \in 1..Len(params) |-> NoSize]
         /\ params_' = params
    /\ pc' = "read"
    /\ outcome' = "ok"
    /\ UNCHANGED <<info_, stream_, span, frame_in, frame, texts, rendered,
                   drawn, seen, mono, calls, configures>>

\* Configure(), called each time the host has configured a YUV420 main stream.
Configure ==
    /\ pc \in {"read", "configured"}
    /\ configures < MaxConfigures
    /\ \E size \in StreamSizes :
         LET info == [width |-> size[1], height |-> size[2],
                      stride |-> size[3]]
         IN  /\ info_' = info
             /\ overlays_' = [i \in 1..Len(overlays_) |->
                                ConfigureOverlay(overlays_[i], info)]
    /\ stream_' = "YUV420"
    /\ pc' = "configured"
    /\ outcome' = "ok"
    /\ configures' = configures + 1
    /\ UNCHANGED <<params_, span, frame_in, frame, texts, rendered, drawn,
                   seen, mono, render_mono, measured, calls>>

ConfigureRejected_InfoFirst ==
    /\ pc \in {"read", "configured"}
    /\ configures < MaxConfigures
    /\ \E stream \in RejectedStreams, size \in StreamSizes :
         /\ stream_' = stream
         /\ info_' = [width |-> size[1], height |-> size[2],
                      stride |-> size[3]]
    /\ pc' = "read"
    /\ outcome' = "threw"
    /\ configures' = configures + 1
    /\ UNCHANGED <<overlays_, params_, span, frame_in, frame, texts, rendered,
                   drawn, seen, mono, render_mono, measured, calls>>

\* Configure() when there is no main stream or it is not YUV420: stream_ is
\* assigned, then the runtime_error leaves Configure before info_ and the
\* overlays are touched.  The stage is not configured until a later
\* Configure succeeds.
ConfigureRejected ==
    /\ pc \in {"read", "configured"}
    /\ configures < MaxConfigures
    /\ \E stream \in RejectedStreams : stream_' = stream
    /\ pc' = "read"
    /\ outcome' = "threw"
    /\ configures' = configures + 1
    /\ UNCHANGED <<overlays_, info_, params_, span, frame_in, frame, texts,
                   rendered, drawn, seen, mono, render_mono, measured, calls>>

\* The texts an overlay can expand to in a Process call.
Expansions(config) ==
    IF config.is_dynamic
    THEN UNION {{FormatText(s, buf) : buf \in StrftimeResults(s)} :
                  s \in ToStringResults(config.text)}
    ELSE {config.text}

\* The expansions of all overlays in one Process call.
TextVectors(ovs) ==
    {tx \in [1..Len(ovs) -> UNION {Expansions(ovs[i]) : i \in 1..Len(ovs)}] :
       \A i \in 1..Len(ovs) : tx[i] \in Expansions(ovs[i])}

\* The luminance planes handed to Process: a ramp, every cell its own value.
FrameInputs(info) ==
    {FrameMat(info, [p \in MatCells(info.height, info.width) |->
                       10 + 10 * p[1] + p[2]])}

\* The byte offset of a cell of the frame Mat from the start of the span.
Offset(p, info) == p[2] * info.stride + p[1]

\* The call copies a patch to a cell that lies past the end of the span.
WritesPastSpan(st, info, bytes) ==
    \E i \in st.drawn, p \in DOMAIN st.frame.data :
      InRect(st.overlays[i], p) /\ Offset(p, info) >= bytes

\* How a call can end: a write past the end of the span is undefined
\* behaviour, which lands in foreign memory or kills the process; nothing in
\* Process throws.
ProcessOutcomes(st, info, bytes) ==
    IF WritesPastSpan(st, info, bytes) THEN {"ok", "crashed"} ELSE {"ok"}

\* Process(completed_request) on a buffer whose first plane spans `bytes`
\* bytes: current_time is what system_clock::now() reads, t what a monotonic
\* clock reads at the same moment.
ProcessWith(bytes) ==
    /\ pc = "configured"
    /\ calls < MaxCalls
    /\ \E current_time \in ClockReadings,
          t \in {m \in ClockReadings : m >= mono},
          input \in FrameInputs(info_),
          tx \in TextVectors(overlays_) :
         \E st \in {ProcessLoop([overlays |-> overlays_, frame |-> input,
                                  rendered |-> {}, drawn |-> {},
                                  measured |-> measured],
                                 Len(overlays_), tx, current_time, info_)} :
             /\ overlays_' = st.overlays
             /\ frame' = st.frame
             /\ frame_in' = input
             /\ texts' = tx
             /\ rendered' = st.rendered
             /\ drawn' = st.drawn
             /\ measured' = st.measured
             /\ seen' = seen \cup {i \in 1..Len(overlays_) : tx[i] # <<>>}
             /\ mono' = t
             /\ render_mono' = [i \in 1..Len(overlays_) |->
                                  IF i \in st.rendered THEN t
                                  ELSE render_mono[i]]
             /\ \E end \in ProcessOutcomes(st, info_, bytes) :
                  /\ outcome' = end
                  /\ pc' = IF end = "crashed" THEN "crashed" ELSE pc
    /\ span' = bytes
    /\ calls' = calls + 1
    /\ UNCHANGED <<info_, stream_, params_, configures>>

\* Process on a buffer whose first plane spans the whole luminance plane.
Process == ProcessWith(info_.stride * info_.height)

\* The spans shorter than stride x height a host can hand to Process: one
\* byte short, and two rows short.
ShortSpans(info) ==
    {info.stride * info.height - 1, info.stride * (info.height - 2)}

\* Process on a buffer whose first plane is shorter than stride x height.
ProcessShortSpan == \E bytes \in ShortSpans(info_) : ProcessWith(bytes)

Next == Read \/ Configure \/ Process

Spec == Init /\ [][Next]_vars

\* The stage under a host that may also offer a stream Configure rejects.
NextRejecting == Next \/ ConfigureRejected

SpecRejecting == Init /\ [][NextRejecting]_vars

\* The stage under a host that may also hand Process a buffer that is too
\* short.
NextFaulty == NextRejecting \/ ProcessShortSpan

SpecFaulty == Init /\ [][NextFaulty]_vars

(***************************************************************************)
(* Properties                                                              *)
(***************************************************************************)
Overlays == 1..Len(overlays_)

\* The step is a Process call.
ProcessStep == calls' = calls + 1

\* C1: between two Process calls that re-rasterise a dynamic overlay's patch
\* at least update_interval ms of monotonic time elapse, however the clock
\* that Process reads behaves.
C1_RenderGapAtLeastInterval ==
    [][ProcessStep =>
         \A i \in Overlays :
           (overlays_[i].is_dynamic /\ i \in rendered' /\ render_mono[i] >= 0)
             => mono' - render_mono[i] >= overlays_[i].update_interval]_vars

\* C2: once a dynamic overlay's text has expanded to a non-empty string in a
\* Process call, its patch has been rendered: the cache is non-empty,
\* whatever the clock read and whatever the update interval.
C2_FirstFrameRendered ==
    \A i \in seen :
      overlays_[i].is_dynamic => ~MatEmpty(overlays_[i].cached_roi)

\* C3: a static overlay is rendered by the first Process call in which its
\* text is non-empty, and no later Process call invokes GenerateCache for it
\* or changes its cached patch and rectangle.
C3_StaticSeenIsCached ==
    \A i \in seen :
      ~overlays_[i].is_dynamic =>
        render_mono[i] >= 0 /\ ~MatEmpty(overlays_[i].cached_roi)

C3_StaticRenderedOnce ==
    /\ []C3_StaticSeenIsCached
    /\ [][ProcessStep =>
            \A i \in Overlays :
              (~overlays_[i].is_dynamic /\ render_mono[i] >= 0) =>
                /\ i \notin rendered'
                /\ overlays_'[i].cached_roi = overlays_[i].cached_roi
                /\ overlays_'[i].cached_x = overlays_[i].cached_x
                /\ overlays_'[i].cached_y = overlays_[i].cached_y
                /\ overlays_'[i].cached_width = overlays_[i].cached_width
                /\ overlays_'[i].cached_height = overlays_[i].cached_height]_vars

\* A static overlay rendered by an earlier call is reused by the second call.
C3_Witness ==
    /\ calls = 2
    /\ \E i \in Overlays :
         /\ ~overlays_[i].is_dynamic
         /\ render_mono[i] >= 0
         /\ i \notin rendered
         /\ i \in drawn

\* The cells of the frame of the latest Process call.
Cells == DOMAIN frame.data

\* Overlay i was drawn over cell p and no overlay drawn after it covers p.
Topmost(i, p) ==
    /\ i \in drawn
    /\ InRect(overlays_[i], p)
    /\ \A k \in drawn : k > i => ~InRect(overlays_[k], p)

\* C4: a cell outside the rectangles of the overlays composited by a Process
\* call has the value it had when the call received the frame.
C4_OutsideUnchanged ==
    \A p \in Cells :
      (\A i \in drawn : ~InRect(overlays_[i], p))
        => frame.data[p] = frame_in.data[p]

\* Some overlay was drawn and changed a cell, and some cell lies outside.
C4_Witness ==
    /\ drawn # {}
    /\ \E p \in Cells : frame.data[p] # frame_in.data[p]
    /\ \E p \in Cells : \A i \in drawn : ~InRect(overlays_[i], p)

C6_EmptyExpansionSkipped ==
    [][ProcessStep =>
         /\ \A i \in Overlays :
              texts'[i] = <<>> =>
                /\ overlays_'[i] = overlays_[i]
                /\ i \notin rendered'
                /\ i \notin drawn'
         /\ \A p \in DOMAIN frame'.data :
              frame'.data[p] # frame_in'.data[p] =>
                \E j \in drawn' :
                  texts'[j] # <<>> /\ InRect(overlays_'[j], p)
         /\ (\A i \in Overlays : texts'[i] = <<>>) => frame' = frame_in']_vars

\* A dynamic overlay with a cached patch expanded to the empty string in the
\* second call and was not drawn.
C6_Witness ==
    /\ calls = 2
    /\ \E i \in Overlays :
         /\ overlays_[i].is_dynamic
         /\ ~MatEmpty(overlays_[i].cached_roi)
         /\ texts[i] = <<>>
         /\ i \notin drawn

\* Cell p of the frame lies in overlay i's rectangle on a cell of the patch
\* that neither a text stroke nor a border stroke covers.
BackgroundCell(i, p) ==
    LET config == overlays_[i]
        size == measured[i]
        cx == p[1] - config.cached_x
        cy == p[2] - config.cached_y
    IN  /\ InRect(config, p)
        /\ ~TextStroke(size, cx, cy)
        /\ ~(config.has_border
             /\ BorderStroke(size.height + size.baseline, size.width,
                             config.border_width, cx, cy))

\* C7: an overlay without a 'bg' key gets no background fill: the cells of
\* its rectangle that no stroke covers keep the value the frame came with.
C7_NoBgNoFill ==
    \A i \in drawn :
      ~overlays_[i].has_bg =>
        \A p \in Cells :
          (Topmost(i, p) /\ BackgroundCell(i, p))
            => frame.data[p] = frame_in.data[p]

\* C8: an overlay with a 'bg' key and alpha = 0 leaves the cells of its
\* rectangle that no stroke covers at the value the frame came with.
C8_ZeroAlphaNoFill ==
    \A i \in drawn :
      (overlays_[i].has_bg /\ overlays_[i].alpha = 0) =>
        \A p \in Cells :
          (Topmost(i, p) /\ BackgroundCell(i, p))
            => frame.data[p] = frame_in.data[p]

\* The measured patch is no wider and no taller than the frame.
FitsFrame(size, frm) ==
    size.width <= frm.cols /\ size.height + size.baseline <= frm.rows

\* C9: when the measured patch is no larger than the frame, the clamped
\* anchor puts the whole patch rectangle inside the frame and the overlay
\* is drawn.
C9_FittingPatchIsDrawn ==
    \A i \in rendered :
      FitsFrame(measured[i], frame) =>
        i \in drawn /\ InFrame(overlays_[i], frame)

\* C10: an overlay whose measured patch is larger than the frame is not
\* drawn and changes no cell, and the overlays whose patch lies inside the
\* frame are still drawn in the same call.
C10_OversizeSkipped ==
    calls > 0 =>
      \A i \in Overlays :
        (~MatEmpty(overlays_[i].cached_roi) /\ ~FitsFrame(measured[i], frame))
          => /\ i \notin drawn
             /\ \A p \in Cells :
                  frame.data[p] # frame_in.data[p] =>
                    \E j \in drawn \ {i} : InRect(overlays_[j], p)
             /\ \A j \in Overlays :
                  (texts[j] # <<>> /\ Draws(overlays_[j], frame))
                    => j \in drawn

\* An oversize overlay was skipped and a later overlay was drawn.
C10_Witness ==
    /\ calls > 0
    /\ \E i \in Overlays, j \in drawn :
         /\ i < j
         /\ texts[i] # <<>>
         /\ ~MatEmpty(overlays_[i].cached_roi)
         /\ ~FitsFrame(measured[i], frame)
         /\ i \notin drawn
         /\ \E p \in Cells : frame.data[p] # frame_in.data[p]

\* C11: a Process call handed a span shorter than stride x height ends with
\* an error and leaves every cell of the frame as it received it.
C11_ShortSpanThrows ==
    [][(ProcessStep /\ span' < info_.stride * info_.height) =>
         (outcome' = "threw" /\ frame' = frame_in')]_vars

\* C12: a Configure call that finds no main stream, or one that is not
\* YUV420, throws and leaves every overlay (resolved geometry, cache,
\* last_update) and the stored stream dimensions as they were.
C12_RejectedConfigureChangesNothing ==
    [][(configures' = configures + 1 /\ stream_' # "YUV420") =>
         /\ outcome' = "threw"
         /\ overlays_' = overlays_
         /\ info_' = info_]_vars

\* A configured stage with a rendered patch has had a Configure call rejected.
C12_Witness ==
    /\ outcome = "threw"
    /\ stream_ \in RejectedStreams
    /\ info_.width > 0
    /\ \E i \in Overlays : ~MatEmpty(overlays_[i].cached_roi)

\* The non-empty texts an overlay can expand to.
NonEmptyExpansions(config) == Expansions(config) \ {<<>>}

\* C13: the rate limiter does not depend on the wall clock: from any state,
\* two Process calls that differ only in the wall-clock reading re-rasterise
\* the same dynamic overlays and leave the same last_update.
C13_WallClockIndependent ==
    pc = "configured" =>
      \A i \in Overlays :
        overlays_[i].is_dynamic =>
          \A w1 \in ClockReadings, w2 \in ClockReadings :
            \A text \in NonEmptyExpansions(overlays_[i]) :
              /\ NeedsRender(overlays_[i], w1) = NeedsRender(overlays_[i], w2)
              /\ RefreshCache(overlays_[i], text, w1, info_).last_update
                   = RefreshCache(overlays_[i], text, w2, info_).last_update

\* C14: after Configure with stream width W every overlay's thickness is
\* max(1, floor(t * W / 700)) for the thickness t its configuration entry
\* gives (2 when the entry gives none), hence at least 1.
C14_ThicknessFromConfiguration ==
    pc = "configured" =>
      \A i \in Overlays :
        /\ overlays_[i].thickness >= 1
        /\ overlays_[i].thickness
             = Max(1, (Get(params_[i], "thickness", 2) * info_.width)
                        \div THICKNESS_REF_WIDTH)

\* C15: the rendered patch of an overlay with border_width = 0, absent or
\* explicit, has no border stroke: it is the patch of fill and text alone.
C15_ZeroBorderWidthNoBorder ==
    \A i \in Overlays :
      (~MatEmpty(overlays_[i].cached_roi) /\ overlays_[i].border_width = 0)
        => overlays_[i].cached_roi
             = RenderPatch([overlays_[i] EXCEPT !.has_border = FALSE],
                           measured[i])

\* C16: for a dynamic overlay with non-empty text and clock reading now, a
\* Process call re-renders the patch and sets last_update = now when
\* now - last_update >= update_interval, and otherwise leaves the cached
\* patch and last_update as they are.
C16_RenderIffIntervalElapsed ==
    pc = "configured" =>
      \A i \in Overlays :
        overlays_[i].is_dynamic =>
          \A now \in ClockReadings :
            \A text \in NonEmptyExpansions(overlays_[i]) :
              LET old == overlays_[i]
                  new == RefreshCache(old, text, now, info_)
              IN  IF now - old.last_update >= old.update_interval
                  THEN /\ new.last_update = now
                       /\ new.cached_roi
                            = RenderPatch(old, getTextSize(text, old.scale,
                                                           old.thickness))
                  ELSE /\ new.last_update = old.last_update
                       /\ new.cached_roi = old.cached_roi

\* C17: a non-empty cached patch has cached_width columns and cached_height
\* rows, and these are text_width and text_height + baseline of the
\* overlay's latest measurement.
C17_CachedSizeIsMeasuredSize ==
    \A i \in Overlays :
      ~MatEmpty(overlays_[i].cached_roi) =>
        /\ overlays_[i].cached_width = overlays_[i].cached_roi.cols
        /\ overlays_[i].cached_height = overlays_[i].cached_roi.rows
        /\ overlays_[i].cached_width = measured[i].width
        /\ overlays_[i].cached_height
             = measured[i].height + measured[i].baseline

\* A dynamic overlay was rendered by the second call, after the geometry was
\* resolved a second time, with a measurement of a different size than the
\* one the first geometry gives.
C17_Witness ==
    /\ calls = 2
    /\ configures = 2
    /\ \E i \in rendered :
         /\ overlays_[i].is_dynamic
         /\ ~MatEmpty(overlays_[i].cached_roi)
         /\ measured[i].width = 1

\* C18: a Configure call with the stream width of the Configure call before
\* it leaves every overlay's thickness and scale as they were.
C18_ConfigureIdempotent ==
    [][(configures' = configures + 1 /\ outcome' = "ok"
          /\ pc = "configured" /\ info_'.width = info_.width) =>
         \A i \in Overlays :
           /\ overlays_'[i].thickness = overlays_[i].thickness
           /\ overlays_'[i].scale = overlays_[i].scale]_vars

\* C19: in every Process call a patch is copied only when its rectangle lies
\* inside the frame of the current stream dimensions.
C19_DrawnInsideCurrentFrame ==
    [][ProcessStep =>
         /\ frame'.cols = info_.width
         /\ frame'.rows = info_.height
         /\ \A i \in drawn' :
              /\ 0 <= overlays_'[i].cached_x
              /\ 0 <= overlays_'[i].cached_y
              /\ overlays_'[i].cached_x + overlays_'[i].cached_width
                   <= info_.width
              /\ overlays_'[i].cached_y + overlays_'[i].cached_height
                   <= info_.height]_vars

\* After a second Configure with a smaller frame, a patch rendered for the
\* first frame reaches below the new frame and is not drawn.
C19_Witness ==
    /\ calls = 2
    /\ configures = 2
    /\ \E i \in Overlays :
         /\ ~MatEmpty(overlays_[i].cached_roi)
         /\ texts[i] # <<>>
         /\ i \notin rendered
         /\ i \notin drawn
         /\ overlays_[i].cached_height <= frame.rows
         /\ overlays_[i].cached_y + overlays_[i].cached_height > frame.rows

\* C20: after each Process call a static overlay with non-empty text has the
\* patch and rectangle that the geometry currently resolved by Configure
\* gives.
C20_StaticCacheFollowsGeometry ==
    [][ProcessStep =>
         \A i \in Overlays :
           (~overlays_[i].is_dynamic /\ texts'[i] # <<>>) =>
             LET config == overlays_'[i]
                 size == getTextSize(texts'[i], config.scale, config.thickness)
                 bg_rect == BgRect(config, size, info_)
             IN  /\ config.cached_x = bg_rect.x
                 /\ config.cached_y = bg_rect.y
                 /\ config.cached_width = bg_rect.width
                 /\ config.cached_height = bg_rect.height
                 /\ config.cached_roi = RenderPatch(config, size)]_vars

====
